---- MODULE Spec2Model ----
(***************************************************************************)
(* Model of the background process supervisor of latte                     *)
(* (src/src/process_manager.rs): the registry of ProcessHandles behind one *)
(* mutex, the two stream-reader threads and the liveness-monitor thread    *)
(* that every spawn starts, and the facade operations of the (single)      *)
(* control thread.  Every action is one critical section of the registry   *)
(* mutex together with the thread-local code around it.                    *)
(*                                                                         *)
(* A child is named by the number of the spawn call that created it; that  *)
(* number is also the pid of its record.  What the program can no longer   *)
(* reach (the OS state of a process that no record and no Child value      *)
(* refers to, the pipes of a Child value that was dropped, the id of a     *)
(* spawn all of whose threads have ended) is forgotten: see Forget.        *)
(*                                                                         *)
(* Beside the life cycle (Spec, SpecReuse, SpecAbsent, FairSpec) the       *)
(* module has the caller's queries (SpecQuery), the bench wrappers, which  *)
(* make their ids from the wall clock (SpecWrappers) and their argument    *)
(* lists from the caller's names (SpecArgs), the two text functions        *)
(* applied to lines of characters (SpecText), and the lock protocol of the *)
(* threads, with the critical sections split into the request, the hold    *)
(* and the release of the mutex (SpecLock, FairLock).                      *)
(***************************************************************************)
EXTENDS Integers, Sequences, FiniteSets, TLC

\* ---------------------------------------------------------------- bounds
\* spawn calls that succeed in one behaviour of SpecReuse
MaxSpawns == 3
\* spawn calls that succeed in one behaviour of Spec
LogSpawns == 2
\* spawns whose worker threads have not all ended when the next spawn starts
MaxLive == 2
\* retention cap of the three line buffers (ProcessManager::new sets 1000;
\* scaled down so that the buffers overflow)
log_buffer_size == 2
\* lines read from all pipes in one behaviour of Spec: enough for one stream
\* to overflow the cap while another stream has a line too
MaxLines == log_buffer_size + 2

\* wrapper calls that succeed in one behaviour of SpecWrappers
MaxCalls == 2
\* seconds that pass in one behaviour of SpecWrappers
MaxClock == 1

Ids == {"a", "b"}
Children == 1..MaxSpawns
Streams == {"Stdout", "Stderr"}
NoChild == 0

ProcessStatus == {"Starting", "Running", "Stopped", "Failed", "Killed"}
Terminal == {"Stopped", "Failed", "Killed"}

VARIABLES
    procs,      \* the registry: id -> ProcessHandle, for the ids present
    os,         \* OS state of each child process
    idOf,       \* the id the threads of each spawn were given
    nspawn,     \* number of children created so far
    rd,         \* the reader thread of (spawn, stream): pc and Child held
    taken,      \* child.stdout / child.stderr has been take()n
    nread,      \* lines read so far from a stream of a child
    nlines,     \* lines read so far from all pipes
    mon,        \* the monitor thread of each spawn
    ctl,        \* the control thread: position inside a facade call
    appended,   \* history: the LogLines pushed to the present record of an id
    stopped,    \* history: ids stopped successfully and not spawned since
    inp,        \* the line handed to a text function
    out,        \* the last result the control thread got from a text function or a query
    clock,      \* chrono::Utc::now().timestamp(): the wall clock, in seconds
    lock,       \* the thread that holds the Mutex of the registry, if any
    thr         \* where each thread is with respect to the Mutex

\* what the supervisor's own steps leave alone
others == <<inp, out, clock, lock, thr>>

vars == <<procs, os, idOf, nspawn, rd, taken, nread, nlines, mon, ctl,
          appended, stopped, inp, out, clock, lock, thr>>

Has(id) == id \in DOMAIN procs

Idle == [pc |-> "idle", id |-> "a", child |-> NoChild, todo |-> {}, done |-> {},
         running |-> {}]

NoReader == [pc |-> "none", held |-> NoChild]

NoOut == [op |-> "none"]

\* no thread holds the Mutex
Free == "free"

\* the control thread, and the two readers and the monitor of a spawn
LockThreads == {"control", "Stdout", "Stderr", "monitor"}

\* a thread that is not running, or the control thread between two calls
Off == [at |-> "off", ph |-> "off", id |-> "a", todo |-> {}]

\* Mutex::new(HashMap::new()): unlocked, and no thread is on its way to it
InitMutex ==
    /\ lock = Free
    /\ thr = [t \in LockThreads |-> Off]

\* ProcessManager::new(): an empty registry, no thread, no child
InitRegistry ==
    /\ procs = <<>>
    /\ os = [c \in Children |-> "gone"]
    /\ idOf = [c \in Children |-> "a"]
    /\ nspawn = 0
    /\ rd = [c \in Children |-> [s \in Streams |-> NoReader]]
    /\ taken = [c \in Children |-> [s \in Streams |-> FALSE]]
    /\ nread = [c \in Children |-> [s \in Streams |-> 0]]
    /\ nlines = 0
    /\ mon = [c \in Children |-> "none"]
    /\ ctl = Idle
    /\ appended = [i \in Ids |-> <<>>]
    /\ stopped = {}

Init ==
    /\ InitRegistry
    /\ inp = <<>>
    /\ out = NoOut
    /\ clock = 0
    /\ InitMutex

\* ------------------------------------------------------- registry helpers
\* ProcessHandle { info: ProcessInfo, child: Option<Child>, log_lines }
NewHandle(c) ==
    [status |-> "Starting", pid |-> c, child |-> NoChild,
     log_lines |-> <<>>, output_lines |-> <<>>, error_lines |-> <<>>]

\* HashMap::insert: adds the key or overwrites the value of a present key
Insert(m, id, h) == [i \in (DOMAIN m) \cup {id} |-> IF i = id THEN h ELSE m[i]]

LogLine(d, s, k) == [source |-> s, content |-> <<d, s, k>>]

\* mutant: the newest line is dropped instead of the oldest
TrimNewest(buf) ==
    IF Len(buf) > log_buffer_size THEN SubSeq(buf, 1, Len(buf) - 1) ELSE buf

\* mutant: the buffers are never trimmed
TrimSkipped(buf) == buf

\* Vec::remove(0) once the buffer is longer than buffer_size
Trim(buf) == IF Len(buf) > log_buffer_size THEN Tail(buf) ELSE buf

\* mutant: the new line goes to the front of the buffers
PushLineFirst(h, d, s, k) ==
    [h EXCEPT
       !.log_lines = Trim(<<LogLine(d, s, k)>> \o @),
       !.output_lines = Trim(IF s = "Stdout" THEN <<(<<d, s, k>>)>> \o @ ELSE @),
       !.error_lines = Trim(IF s = "Stderr" THEN <<(<<d, s, k>>)>> \o @ ELSE @)]

\* the locked append of monitor_stream: push to log_lines and to the raw
\* buffer of the stream, then trim the three buffers
PushLine(h, d, s, k) ==
    [h EXCEPT
       !.log_lines = Trim(Append(@, LogLine(d, s, k))),
       !.output_lines = Trim(IF s = "Stdout" THEN Append(@, <<d, s, k>>) ELSE @),
       !.error_lines = Trim(IF s = "Stderr" THEN Append(@, <<d, s, k>>) ELSE @)]

\* ---------------------------------------------------- ownership and drop
\* the Child value of process c exists: in a handle or moved into a reader
Owned(m, r, c) ==
    \/ \E i \in DOMAIN m : m[i].child = c
    \/ \E x \in Children, s \in Streams : r[x][s].held = c

\* the spawn of c has a thread that has not ended
Busy(r, mo, c) == mo[c] = "polling" \/ \E s \in Streams : r[c][s].pc # "none"

\* the program can still name process c: by a Child value, by the pid of a
\* record, or as the child of the spawn call in progress
Known(m, r, ct, c) ==
    \/ Owned(m, r, c)
    \/ \E i \in DOMAIN m : m[i].pid = c
    \/ ct.child = c

\* a dropped Child closes its pipes and leaves its process to itself; ended
\* threads leave nothing behind.  o, t, n, ids are the values before the drop.
Forget(o, t, n, ids) ==
    /\ os' = [c \in Children |-> IF Known(procs', rd', ctl', c) THEN o[c] ELSE "gone"]
    /\ taken' = [c \in Children |->
                   IF Owned(procs', rd', c) THEN t[c] ELSE [s \in Streams |-> FALSE]]
    /\ nread' = [c \in Children |->
                   IF Owned(procs', rd', c) THEN n[c] ELSE [s \in Streams |-> 0]]
    /\ idOf' = [c \in Children |->
                   IF Busy(rd', mon', c) \/ c = ctl'.child THEN ids[c] ELSE "a"]

\* ----------------------------------------------------------------- spawn
\* mutant: the failed spawn leaves a Failed record behind
SpawnFailLeavesRecord(id) ==
    /\ ctl.pc = "idle"
    /\ procs' = Insert(procs, id, [NewHandle(NoChild) EXCEPT !.status = "Failed"])
    /\ UNCHANGED <<os, idOf, nspawn, rd, taken, nread, nlines, mon, ctl,
                   appended, stopped, others>>

\* Command::spawn() fails: the `?` returns the error before anything else
SpawnFail(id) ==
    /\ ctl.pc = "idle"
    /\ UNCHANGED vars

\* start_output_monitoring, called before the record is inserted: the Child
\* goes into the handle the registry holds for the id, if any, and is dropped
\* otherwise
StoreChild(m, id, c) ==
    IF id \in DOMAIN m THEN [m EXCEPT ![id].child = c] ELSE m

\* start_simple_command / start_bench_process up to the creation of the two
\* reader threads.  Bounds: at most limit spawns; fewer than MaxLive earlier
\* spawns still have threads; the reader threads of earlier spawns have run
\* their first critical section (a new spawn is a new user command).
SpawnBegin(id, limit) ==
    /\ ctl.pc = "idle"
    /\ nspawn < limit
    /\ Cardinality({c \in Children : Busy(rd, mon, c)}) < MaxLive
    /\ \A x \in Children, s \in Streams : rd[x][s].pc # "start"
    /\ LET c == nspawn + 1 IN
        /\ nspawn' = c
        /\ procs' = StoreChild(procs, id, c)
        /\ rd' = [rd EXCEPT ![c] = [s \in Streams |-> [pc |-> "start", held |-> NoChild]]]
        /\ ctl' = [Idle EXCEPT !.pc = "spawn", !.id = id, !.child = c]
        /\ stopped' = stopped \ {id}
        /\ UNCHANGED <<nlines, mon, appended, others>>
        /\ Forget([os EXCEPT ![c] = "alive"], taken, nread, [idOf EXCEPT ![c] = id])

\* mutant: the record is born Running
SpawnRecordRunning(c) == [NewHandle(c) EXCEPT !.status = "Running"]

\* the record the spawn puts into the registry
SpawnRecord(c) == NewHandle(c)

\* the rest of the spawn: insert the handle (child: None), start the monitor
\* thread, return Ok(id)
SpawnInsert ==
    /\ ctl.pc = "spawn"
    /\ procs' = Insert(procs, ctl.id, SpawnRecord(ctl.child))
    /\ mon' = [mon EXCEPT ![ctl.child] = "polling"]
    /\ appended' = [appended EXCEPT ![ctl.id] = <<>>]
    /\ ctl' = Idle
    /\ UNCHANGED <<nspawn, rd, nlines, stopped, others>>
    /\ Forget(os, taken, nread, idOf)

\* --------------------------------------------------------- stream readers
\* the reader thread's first critical section: handle.child.take(); without a
\* Child the thread ends; with one, monitor_stream takes the stream out of it
ReaderStart(c, s) ==
    /\ rd[c][s].pc = "start"
    /\ LET id == idOf[c]
           d == IF Has(id) THEN procs[id].child ELSE NoChild
       IN IF d = NoChild
          THEN /\ rd' = [rd EXCEPT ![c][s] = NoReader]
               /\ UNCHANGED procs
               /\ UNCHANGED <<nspawn, nlines, mon, ctl, appended, stopped, others>>
               /\ Forget(os, taken, nread, idOf)
          ELSE /\ procs' = [procs EXCEPT ![id].child = NoChild]
               /\ rd' = [rd EXCEPT ![c][s] =
                           [pc |-> IF taken[d][s] THEN "restore" ELSE "reading",
                            held |-> d]]
               /\ UNCHANGED <<nspawn, nlines, mon, ctl, appended, stopped, others>>
               /\ Forget(os, [taken EXCEPT ![d][s] = TRUE], nread, idOf)

\* one turn of the read loop: read_line returns a line, which is pushed to the
\* record of the id if the registry has one
ReadLine(c, s) ==
    /\ rd[c][s].pc = "reading"
    /\ nlines < MaxLines
    /\ LET id == idOf[c]
           d == rd[c][s].held
           k == nread[d][s] + 1
       IN /\ nlines' = nlines + 1
          /\ IF Has(id)
             THEN /\ procs' = [procs EXCEPT ![id] = PushLine(@, d, s, k)]
                  /\ appended' = [appended EXCEPT ![id] = Append(@, LogLine(d, s, k))]
             ELSE UNCHANGED <<procs, appended>>
          /\ UNCHANGED <<nspawn, rd, mon, ctl, stopped, others>>
          /\ Forget(os, taken, [nread EXCEPT ![d][s] = k], idOf)

\* mutant: the restore makes a record when the id has none
RestoreOrInsert(m, id, d) == Insert(m, id, [NewHandle(d) EXCEPT !.child = d])

\* "Restore child": the Child goes back into the handle of the id, if any
RestoreChild(m, id, d) ==
    IF id \in DOMAIN m THEN [m EXCEPT ![id].child = d] ELSE m

\* the end of a reader thread: read_line returned Ok(0) or Err and the loop
\* broke, or the stream had been taken before; the last critical section
\* restores the Child
ReaderRestore(c, s) ==
    /\ rd[c][s].pc \in {"reading", "restore"}
    /\ \E why \in {"eof", "error"} :
        /\ procs' = RestoreChild(procs, idOf[c], rd[c][s].held)
        /\ rd' = [rd EXCEPT ![c][s] = NoReader]
    /\ UNCHANGED <<nspawn, nlines, mon, ctl, appended, stopped, others>>
    /\ Forget(os, taken, nread, idOf)

\* ------------------------------------------------------- the child's life
\* the child process ends by itself, with a success or a failure code
ChildExit(c) ==
    /\ os[c] = "alive"
    /\ \E code \in {"exit_ok", "exit_fail"} : os' = [os EXCEPT ![c] = code]
    /\ UNCHANGED <<procs, idOf, nspawn, rd, taken, nread, nlines, mon, ctl,
                   appended, stopped, others>>

\* ------------------------------------------------------ liveness monitor
\* Child::try_wait on the child the handle holds: the outcomes the OS can give
TryWait(d) ==
    {"Err"} \cup (CASE os[d] = "alive" -> {"None"}
                    [] os[d] = "exit_ok" -> {"Success"}
                    [] OTHER -> {"Failure"})

\* mutant: the Ok(None) branch sets Running whatever the status was
PromoteAlways(st) == "Running"

\* the Ok(None) branch: promote Starting to Running
Promote(st) == IF st = "Starting" THEN "Running" ELSE st

\* the locked block of one poll of a handle that holds a Child
PollHandle(h, r) ==
    CASE r = "Success" -> [h EXCEPT !.status = "Stopped", !.child = NoChild]
      [] r = "Failure" -> [h EXCEPT !.status = "Failed", !.child = NoChild]
      [] r = "Err" -> [h EXCEPT !.status = "Failed", !.child = NoChild]
      [] OTHER -> [h EXCEPT !.status = Promote(@)]

\* mutant: the loop also goes on after a failed try_wait
ContinueAfterErr(r) == r \in {"None", "Err"}

\* should_continue
ShouldContinue(r) == r = "None"

\* one turn of the monitor loop of a spawn, after its sleep
MonitorPoll(c) ==
    /\ mon[c] = "polling"
    /\ LET id == idOf[c] IN
        IF Has(id) /\ procs[id].child # NoChild
        THEN \E r \in TryWait(procs[id].child) :
                /\ procs' = [procs EXCEPT ![id] = PollHandle(@, r)]
                /\ mon' = [mon EXCEPT ![c] = IF ShouldContinue(r) THEN "polling" ELSE "none"]
        ELSE /\ mon' = [mon EXCEPT ![c] = "none"]
             /\ UNCHANGED procs
    /\ UNCHANGED <<nspawn, rd, nlines, ctl, appended, stopped, others>>
    /\ Forget(os, taken, nread, idOf)

\* --------------------------------------------------------------- queries
list_processes == {[id |-> i, status |-> procs[i].status] : i \in DOMAIN procs}

list_running_processes ==
    {i \in DOMAIN procs : procs[i].status \in {"Starting", "Running"}}

get_process_logs(id) == IF Has(id) THEN procs[id].log_lines ELSE <<>>

\* ------------------------------------------------------------------ stop
\* Child::kill: a live process dies; one that ended keeps its exit status
Kill(o, d) == IF o[d] = "alive" THEN [o EXCEPT ![d] = "killed"] ELSE o

\* the result of stop_process
StopResult(m, id) ==
    IF id \in DOMAIN m
    THEN IF m[id].child # NoChild THEN "Ok" ELSE "NotRunning"
    ELSE "NotFound"

\* the handle stop_process leaves behind
StopHandle(h) == [h EXCEPT !.status = "Killed", !.child = NoChild]

\* stop_process on the registry m
StopIn(m, id) == IF StopResult(m, id) = "Ok" THEN [m EXCEPT ![id] = StopHandle(@)] ELSE m

StopProcess(id) ==
    /\ ctl.pc = "idle"
    /\ procs' = StopIn(procs, id)
    /\ stopped' = IF StopResult(procs, id) = "Ok" THEN stopped \cup {id} ELSE stopped
    /\ UNCHANGED <<nspawn, rd, nlines, mon, ctl, appended, others>>
    /\ Forget(IF StopResult(procs, id) = "Ok" THEN Kill(os, procs[id].child) ELSE os,
              taken, nread, idOf)

\* stop_all_processes: the snapshot of the keys, taken under the lock
StopAllBegin ==
    /\ ctl.pc = "idle"
    /\ ctl' = [Idle EXCEPT !.pc = "stop_all", !.todo = DOMAIN procs,
                           !.running = list_running_processes]
    /\ UNCHANGED <<procs, os, idOf, nspawn, rd, taken, nread, nlines, mon,
                   appended, stopped, others>>

\* one turn of its loop: stop_process on the next id of the snapshot
StopAllStep ==
    /\ ctl.pc = "stop_all"
    /\ \E id \in ctl.todo :
        /\ procs' = StopIn(procs, id)
        /\ stopped' = IF StopResult(procs, id) = "Ok" THEN stopped \cup {id} ELSE stopped
        /\ ctl' = [ctl EXCEPT !.todo = @ \ {id},
                              !.done = IF StopResult(procs, id) = "Ok"
                                       THEN @ \cup {id} ELSE @]
        /\ UNCHANGED <<nspawn, rd, nlines, mon, appended, others>>
        /\ Forget(IF StopResult(procs, id) = "Ok" THEN Kill(os, procs[id].child) ELSE os,
                  taken, nread, idOf)

\* the loop is over: Ok(stopped_processes)
StopAllEnd ==
    /\ ctl.pc = "stop_all"
    /\ ctl.todo = {}
    /\ ctl' = Idle
    /\ UNCHANGED <<procs, os, idOf, nspawn, rd, taken, nread, nlines, mon,
                   appended, stopped, others>>

\* --------------------------------------------------------------- cleanup
\* mutant: retain keeps the Running records only
RetainedRunning(m) == {i \in DOMAIN m : m[i].status = "Running"}

\* the keys HashMap::retain keeps
Retained(m) == {i \in DOMAIN m : m[i].status \notin Terminal}

CleanupFinished ==
    /\ ctl.pc = "idle"
    /\ procs' = [i \in Retained(procs) |-> procs[i]]
    /\ appended' = [i \in Ids |-> IF i \in Retained(procs) THEN appended[i] ELSE <<>>]
    /\ UNCHANGED <<nspawn, rd, nlines, mon, ctl, stopped, others>>
    /\ Forget(os, taken, nread, idOf)

\* ------------------------------------------------------------------ text
\* a line of output is a sequence of characters
UpperCase ==
    <<"A", "B", "C", "D", "E", "F", "G", "H", "I", "J", "K", "L", "M",
      "N", "O", "P", "Q", "R", "S", "T", "U", "V", "W", "X", "Y", "Z">>

LowerCase ==
    <<"a", "b", "c", "d", "e", "f", "g", "h", "i", "j", "k", "l", "m",
      "n", "o", "p", "q", "r", "s", "t", "u", "v", "w", "x", "y", "z">>

Lower(ch) ==
    IF \E i \in DOMAIN UpperCase : UpperCase[i] = ch
    THEN LowerCase[CHOOSE i \in DOMAIN UpperCase : UpperCase[i] = ch]
    ELSE ch

\* mutant: the line is matched as it is written
KeepCase(line) == line

\* str::to_lowercase
to_lowercase(line) == [i \in 1..Len(line) |-> Lower(line[i])]

\* pat is at place i of line
StartsAt(line, i, pat) ==
    /\ i + Len(pat) - 1 <= Len(line)
    /\ \A j \in 1..Len(pat) : line[i + j - 1] = pat[j]

\* str::contains
contains(line, pat) == \E i \in 1..Len(line) : StartsAt(line, i, pat)

kw_error == <<"e", "r", "r", "o", "r">>
kw_exception == <<"e", "x", "c", "e", "p", "t", "i", "o", "n">>
kw_warning == <<"w", "a", "r", "n", "i", "n", "g">>
kw_warn == <<"w", "a", "r", "n">>
kw_debug == <<"d", "e", "b", "u", "g">>
kw_trace == <<"t", "r", "a", "c", "e">>

\* the chain of tests of detect_log_level on the lower-cased line
detect_log_level(line) ==
    LET line_lower == to_lowercase(line) IN
    IF contains(line_lower, kw_error) \/ contains(line_lower, kw_exception)
    THEN "Error"
    ELSE IF contains(line_lower, kw_warning) \/ contains(line_lower, kw_warn)
    THEN "Warning"
    ELSE IF contains(line_lower, kw_debug) THEN "Debug"
    ELSE IF contains(line_lower, kw_trace) THEN "Trace"
    ELSE "Info"

\* the pieces the lines handed to detect_log_level are made of: the lines of
\* the classification scenarios, the keywords in several cases, keywords cut
\* in two
LevelUnits ==
    {<<"E", "R", "R", "O", "R", ":", " ", "d", "i", "s", "k", " ", "f",
       "u", "l", "l">>,
     <<"W", "a", "r", "n", "i", "n", "g", ":", " ", "d", "e", "p", "r",
       "e", "c", "a", "t", "e", "d">>,
     <<"S", "t", "a", "r", "t", "i", "n", "g", " ", "s", "e", "r", "v",
       "e", "r", ".", ".", ".">>,
     <<"E", "x", "c", "e", "p", "t", "i", "o", "n">>,
     <<"W", "A", "R", "N">>,
     <<"w", "a", "r">>,
     <<"n", "i", "n", "g">>,
     <<"D", "e", "b", "u", "g">>,
     <<"T", "R", "A", "C", "E">>,
     <<"e", "r", "r">>,
     <<"o", "r">>,
     <<" ">>}

\* lines of up to three pieces
LevelLines == {u \o v \o w : u, v, w \in LevelUnits \cup {<<>>}}


\* ----------------------------------------------------- error locations
DigitChars == <<"0", "1", "2", "3", "4", "5", "6", "7", "8", "9">>

IsDigit(ch) == \E i \in DOMAIN DigitChars : DigitChars[i] = ch

\* the place where the longest run of digits that starts at place i ends
\* (i - 1: no digit at i)
DigitsEnd(line, i) ==
    CHOOSE e \in (i - 1)..Len(line) :
        /\ \A j \in i..e : IsDigit(line[j])
        /\ e = Len(line) \/ ~IsDigit(line[e + 1])

\* the place where the longest run of characters other than stop that starts
\* at place i ends
UntilEnd(line, i, stop) ==
    CHOOSE e \in (i - 1)..Len(line) :
        /\ \A j \in i..e : line[j] # stop
        /\ e = Len(line) \/ line[e + 1] = stop

NoMatch == [found |-> FALSE]

py_head == <<"F", "i", "l", "e", " ", "\"">>
py_mid == <<"\"", ",", " ", "l", "i", "n", "e", " ">>
js_head == <<"a", "t", " ">>
js_open == <<" ", "(">>

\* File "([^"]+)", line (\d+) matched at place i: the two groups
FileAt(line, i) ==
    IF ~StartsAt(line, i, py_head) THEN NoMatch
    ELSE LET p == i + Len(py_head)
             pe == UntilEnd(line, p, "\"")
             d == pe + 1 + Len(py_mid)
         IN IF pe >= p /\ StartsAt(line, pe + 1, py_mid) /\ DigitsEnd(line, d) >= d
            THEN [found |-> TRUE, path |-> SubSeq(line, p, pe),
                  num |-> SubSeq(line, d, DigitsEnd(line, d))]
            ELSE NoMatch

\* at ([^(]+) \(([^:]+):(\d+):(\d+)\) matched at place i: groups 2 and 3
JsAt(line, i) ==
    IF ~StartsAt(line, i, js_head) THEN NoMatch
    ELSE LET s == i + Len(js_head)
             q == UntilEnd(line, s, "(") + 1
             pe == UntilEnd(line, q + 1, ":")
             le == DigitsEnd(line, pe + 2)
             ce == DigitsEnd(line, le + 2)
         IN IF /\ q <= Len(line) /\ q - 2 >= s /\ line[q - 1] = " "
               /\ pe >= q + 1 /\ pe < Len(line)
               /\ le >= pe + 2 /\ le < Len(line) /\ line[le + 1] = ":"
               /\ ce >= le + 2 /\ ce < Len(line) /\ line[ce + 1] = ")"
            THEN [found |-> TRUE, path |-> SubSeq(line, q + 1, pe),
                  num |-> SubSeq(line, pe + 2, le)]
            ELSE NoMatch

\* the least of a set of places
Least(places) == CHOOSE i \in places : \A j \in places : i <= j

\* Regex::captures: the match at the leftmost place that has one
file_pattern(line) ==
    LET places == {i \in 1..Len(line) : FileAt(line, i).found} IN
    IF places = {} THEN NoMatch ELSE FileAt(line, Least(places))

js_pattern(line) ==
    LET places == {i \in 1..Len(line) : JsAt(line, i).found} IN
    IF places = {} THEN NoMatch ELSE JsAt(line, Least(places))

\* a numeral without its leading zeros
Canonical(ds) ==
    LET nz == {i \in 1..Len(ds) : ds[i] # "0"} IN
    IF nz = {} THEN <<"0">>
    ELSE SubSeq(ds, CHOOSE i \in nz : \A j \in nz : i <= j, Len(ds))

DigitValue(ch) == (CHOOSE i \in DOMAIN DigitChars : DigitChars[i] = ch) - 1

u32_max == <<"4", "2", "9", "4", "9", "6", "7", "2", "9", "5">>

\* a <= b for two canonical numerals
NumeralLeq(a, b) ==
    \/ Len(a) < Len(b)
    \/ /\ Len(a) = Len(b)
       /\ \/ a = b
          \/ \E k \in 1..Len(a) :
                /\ \A j \in 1..(k - 1) : a[j] = b[j]
                /\ DigitValue(a[k]) < DigitValue(b[k])

None == [some |-> FALSE]

\* str::parse::<u32> on a run of digits: the number, as its canonical
\* numeral, or an error when it is above u32::MAX
ParseU32(ds) ==
    IF NumeralLeq(Canonical(ds), u32_max)
    THEN [some |-> TRUE, value |-> Canonical(ds)]
    ELSE None

ClickableError(m, line, type) ==
    IF ParseU32(m.num).some
    THEN [some |-> TRUE, file_path |-> m.path,
          line_number |-> ParseU32(m.num).value,
          message |-> line, error_type |-> type]
    ELSE None

\* parse_error_line: a match of the first pattern returns, with a location
\* or (`?` on the number) with nothing; only without one is the second tried
parse_error_line(line) ==
    IF file_pattern(line).found
    THEN ClickableError(file_pattern(line), line, "PythonTraceback")
    ELSE IF js_pattern(line).found
    THEN ClickableError(js_pattern(line), line, "JavaScriptError")
    ELSE None

\* the pieces the lines handed to parse_error_line are made of: traceback
\* and stack-frame markers with several paths and numbers, and other text
ErrorUnits ==
    {<<"F", "i", "l", "e", " ", "\"", "/", "a", "p", "p", "/", "m", "o",
       "d", "e", "l", "s", ".", "p", "y", "\"", ",", " ", "l", "i", "n",
       "e", " ", "4", "2">>,
     <<"F", "i", "l", "e", " ", "\"", "/", "a", "p", "p", "/", "m", "o",
       "d", "e", "l", "s", ".", "p", "y", "\"", ",", " ", "l", "i", "n",
       "e", " ", "0", "0", "7">>,
     <<"F", "i", "l", "e", " ", "\"", "/", "a", "p", "p", "/", "m", "o",
       "d", "e", "l", "s", ".", "p", "y", "\"", ",", " ", "l", "i", "n",
       "e", " ", "4", "2", "9", "4", "9", "6", "7", "2", "9", "5">>,
     <<"F", "i", "l", "e", " ", "\"", "/", "a", "p", "p", "/", "m", "o",
       "d", "e", "l", "s", ".", "p", "y", "\"", ",", " ", "l", "i", "n",
       "e", " ", "4", "2", "9", "4", "9", "6", "7", "2", "9", "6">>,
     <<"F", "i", "l", "e", " ", "\"", "\"", ",", " ", "l", "i", "n", "e",
       " ", "4", "2">>,
     <<"F", "i", "l", "e", " ", "\"", "a", ".", "p", "y", "\"", ",", " ",
       "l", "i", "n", "e", " ", "x">>,
     <<"a", "t", " ", "r", "e", "n", "d", "e", "r", " ", "(", "a", "p",
       "p", ".", "j", "s", ":", "1", "0", ":", "5", ")">>,
     <<"a", "t", " ", "r", "e", "n", "d", "e", "r", " ", "(", "h", "t",
       "t", "p", ":", "/", "/", "h", "/", "a", "p", "p", ".", "j", "s",
       ":", "1", "0", ":", "5", ")">>,
     <<"a", "t", " ", "r", "e", "n", "d", "e", "r", " ", "(", "a", "p",
       "p", ".", "j", "s", ":", "4", "2", "9", "4", "9", "6", "7", "2",
       "9", "6", ":", "5", ")">>,
     <<"a", "t", " ", "(", "a", "p", "p", ".", "j", "s", ":", "1", "0",
       ":", "5", ")">>,
     <<"T", "r", "a", "c", "e", "b", "a", "c", "k", " ">>,
     <<" ", "i", "n", " ", "<", "m", "o", "d", "u", "l", "e", ">">>}

\* lines of up to two pieces
ErrorLines == {u \o v : u, v \in ErrorUnits \cup {<<>>}}

Lines == LevelLines \cup ErrorLines

\* a line of output is at hand
InitText ==
    /\ InitRegistry
    /\ inp \in Lines
    /\ out = NoOut
    /\ clock = 0
    /\ InitMutex

\* monitor_stream classifies the line it has read
DetectLogLevel ==
    /\ out' = [op |-> "detect_log_level", level |-> detect_log_level(inp)]
    /\ UNCHANGED <<procs, os, idOf, nspawn, rd, taken, nread, nlines, mon, ctl,
                   appended, stopped, inp, clock, lock, thr>>

\* extract_clickable_errors looks for a location in the line
ParseErrorLine ==
    /\ out' = [op |-> "parse_error_line", error |-> parse_error_line(inp)]
    /\ UNCHANGED <<procs, os, idOf, nspawn, rd, taken, nread, nlines, mon, ctl,
                   appended, stopped, inp, clock, lock, thr>>

\* ---------------------------------------------------- the caller's queries
\* handle.info.clone()
get_process_info(id) ==
    IF Has(id)
    THEN [some |-> TRUE, status |-> procs[id].status, pid |-> procs[id].pid,
          output_lines |-> procs[id].output_lines,
          error_lines |-> procs[id].error_lines]
    ELSE None

\* mutant: the first count lines instead of the last
get_first_logs(id, count) ==
    IF Has(id)
    THEN SubSeq(procs[id].log_lines, 1,
                IF Len(procs[id].log_lines) > count
                THEN count ELSE Len(procs[id].log_lines))
    ELSE <<>>

\* log_lines[start..].to_vec()
get_recent_logs(id, count) ==
    IF Has(id)
    THEN LET len == Len(procs[id].log_lines)
             start == IF len > count THEN len - count ELSE 0
         IN SubSeq(procs[id].log_lines, start + 1, len)
    ELSE <<>>

\* the counts the caller asks get_recent_logs for: none, fewer than the
\* buffer can hold, all of it, more
Counts == 0..(log_buffer_size + 1)

\* a query returns its snapshot to the control thread and leaves the rest
Returns(o) ==
    /\ ctl.pc = "idle"
    /\ out = NoOut
    /\ out' = o
    /\ UNCHANGED <<procs, os, idOf, nspawn, rd, taken, nread, nlines, mon, ctl,
                   appended, stopped, inp, clock, lock, thr>>

GetProcessInfo(id) ==
    Returns([op |-> "get_process_info", id |-> id, val |-> get_process_info(id)])

\* mutant: the query hands out the buffer itself (std::mem::take) and leaves
\* an empty one in the record
GetProcessLogsTake(id) ==
    /\ ctl.pc = "idle"
    /\ out = NoOut
    /\ out' = [op |-> "get_process_logs", id |-> id, val |-> get_process_logs(id)]
    /\ procs' = IF Has(id) THEN [procs EXCEPT ![id].log_lines = <<>>] ELSE procs
    /\ UNCHANGED <<os, idOf, nspawn, rd, taken, nread, nlines, mon, ctl,
                   appended, stopped, inp, clock, lock, thr>>

GetProcessLogs(id) ==
    Returns([op |-> "get_process_logs", id |-> id, val |-> get_process_logs(id)])

GetRecentLogs(id, count) ==
    Returns([op |-> "get_recent_logs", id |-> id, count |-> count,
             val |-> get_recent_logs(id, count)])

ListProcesses ==
    Returns([op |-> "list_processes", id |-> "a", val |-> list_processes])

\* the caller has used the snapshot
Used ==
    /\ out # NoOut
    /\ out' = NoOut
    /\ UNCHANGED <<procs, os, idOf, nspawn, rd, taken, nread, nlines, mon, ctl,
                   appended, stopped, inp, clock, lock, thr>>

\* ------------------------------------------------------ the bench wrappers
\* the prefixes of the ids the seven wrappers make
Wrappers ==
    {"bench_start", "bench_migrate", "bench_build", "bench_new_app",
     "bench_new_site", "bench_console", "bench_mariadb"}

\* format!("<prefix>_{}", chrono::Utc::now().timestamp())
WrapperId(w, now) == w \o "_" \o ToString(now)

\* a second of wall-clock time passes
Tick ==
    /\ clock < MaxClock
    /\ clock' = clock + 1
    /\ UNCHANGED <<procs, os, idOf, nspawn, rd, taken, nread, nlines, mon, ctl,
                   appended, stopped, inp, out, lock, thr>>

\* a wrapper makes its id from the clock and calls start_bench_process
WrapperCall(w) == SpawnBegin(WrapperId(w, clock), MaxCalls)

\* the same, with a bench command that the OS cannot start
WrapperFail(w) == SpawnFail(WrapperId(w, clock))

\* the ids of the records whose command is "bench start": the ids
\* start_bench_dev_server makes
BenchStartIds == {WrapperId("bench_start", now) : now \in 0..MaxClock}

\* the records is_bench_running and get_bench_process_id look for
BenchRecords ==
    {i \in DOMAIN procs :
        i \in BenchStartIds /\ procs[i].status \in {"Starting", "Running"}}

is_bench_running == BenchRecords # {}

\* find() returns the first such record in the order of the map: any of them
get_bench_process_id == BenchRecords

\* frappe-bench-stop: stop_process on the bench process, if there is one
StopBenchProcess ==
    /\ ctl.pc = "idle"
    /\ IF get_bench_process_id = {}
       THEN UNCHANGED vars
       ELSE \E id \in get_bench_process_id : StopProcess(id)

\* ------------------------------------------------- the wrappers' commands
\* site and app names a caller passes
Names == {"site1.local", "erp.test", "library", "hrms"}

Some(v) == [some |-> TRUE, value |-> v]

\* what a wrapper is called with: the default site of the workspace, if
\* any, and the name given for new-app, new-site, console or mariadb
WrapperInputs == [site : {None} \cup {Some(n) : n \in Names}, name : Names]

\* let mut cmd_args = vec![command]; cmd_args.extend(args)
cmd_args(command, args) == <<command>> \o args

\* format!("bench {}", command)
full_command(command) == "bench " \o command

\* what start_bench_process hands to Command and writes into ProcessInfo
BenchSpawn(command, args) ==
    [program |-> "bench", args |-> cmd_args(command, args),
     command |-> full_command(command)]

\* the args run_bench_migrate builds: the site option, if any, then "migrate"
run_bench_migrate_args(site) ==
    (IF site.some THEN <<"--site", site.value>> ELSE <<>>) \o <<"migrate">>

\* the subcommand each wrapper passes as command
WrapperCommand(w) ==
    CASE w = "bench_start" -> "start"
      [] w = "bench_migrate" -> "migrate"
      [] w = "bench_build" -> "build"
      [] w = "bench_new_app" -> "new-app"
      [] w = "bench_new_site" -> "new-site"
      [] w = "bench_console" -> "console"
      [] OTHER -> "mariadb"

\* the args each wrapper passes
WrapperArgs(w, in) ==
    CASE w \in {"bench_start", "bench_build"} -> <<>>
      [] w = "bench_migrate" -> run_bench_migrate_args(in.site)
      [] w \in {"bench_new_app", "bench_new_site"} -> <<in.name>>
      [] OTHER -> <<"--site", in.name>>

InitArgs ==
    /\ InitRegistry
    /\ inp \in WrapperInputs
    /\ out = NoOut
    /\ clock = 0
    /\ InitMutex

\* a wrapper is called: the spawn it asks start_bench_process for
WrapperSpawn(w) ==
    /\ out' = [op |-> w, spawn |-> BenchSpawn(WrapperCommand(w), WrapperArgs(w, inp))]
    /\ UNCHANGED <<procs, os, idOf, nspawn, rd, taken, nread, nlines, mon, ctl,
                   appended, stopped, inp, clock, lock, thr>>

\* -------------------------------------------------------------- the Mutex
\* The lock protocol of the threads.  Each thread is at a call that can block
\* (ph = "call"), has requested the Mutex (ph = "wait") or holds it inside a
\* critical section (ph = "in"); what the critical sections do to the records
\* is told by the actions above, here only which records they touch.
registry == <<procs, os, idOf, nspawn, rd, taken, nread, nlines, mon, ctl,
              appended, stopped, inp, out, clock>>

\* the supervisor after start_simple_command("a", ..) and ("b", ..), when the
\* threads of both spawns have ended
InitLock ==
    /\ procs = [i \in Ids |-> NewHandle(IF i = "a" THEN 1 ELSE 2)]
    /\ os = [c \in Children |-> IF c <= 2 THEN "alive" ELSE "gone"]
    /\ idOf = [c \in Children |-> "a"]
    /\ nspawn = 2
    /\ rd = [c \in Children |-> [s \in Streams |-> NoReader]]
    /\ taken = [c \in Children |-> [s \in Streams |-> FALSE]]
    /\ nread = [c \in Children |-> [s \in Streams |-> 0]]
    /\ nlines = 0
    /\ mon = [c \in Children |-> "none"]
    /\ ctl = Idle
    /\ appended = [i \in Ids |-> <<>>]
    /\ stopped = {}
    /\ inp = <<>>
    /\ out = NoOut
    /\ clock = 0
    /\ InitMutex

\* a thread on its way into the critical section at, for the record of id
Going(at, id) == [at |-> at, ph |-> "wait", id |-> id, todo |-> {}]

\* a thread inside a call that needs no lock and may block
Calling(at, id) == [at |-> at, ph |-> "call", id |-> id, todo |-> {}]

\* thread t is inside the critical section at
Holds(t, at) == lock = t /\ thr[t].at = at /\ thr[t].ph = "in"

\* mutant: the reader keeps the guard of its push over the next read_line
HeldOverRead(t, at) == IF at = "push" THEN t ELSE Free

\* mutant: stop_all_processes keeps the guard of its snapshot over the loop
HeldOverStops(t, at) == IF at = "keys" THEN t ELSE Free

\* the MutexGuard goes out of scope at the end of the critical section
Released(t, at) == Free

\* the records a critical section looks at or changes: retain, values() and
\* keys() go over the whole map, the others look up one id
Touches(at, id) ==
    IF at \in {"keys", "retain", "list"} THEN DOMAIN procs ELSE {id}

\* Mutex::lock returns: the thread that asked gets the free Mutex
LockAcquire(t) ==
    /\ thr[t].ph = "wait"
    /\ lock = Free
    /\ lock' = t
    /\ thr' = [thr EXCEPT ![t].ph = "in"]
    /\ UNCHANGED registry

\* start_simple_command / start_bench_process: Command::spawn, no lock held
CallSpawn(id) ==
    /\ \A t \in LockThreads : thr[t] = Off
    /\ thr' = [thr EXCEPT !["control"] = Calling("spawn", id)]
    /\ UNCHANGED <<lock, registry>>

\* Command::spawn returns: Err leaves the call, Ok goes on to store the Child
SpawnReturns ==
    /\ thr["control"].at = "spawn"
    /\ \E ok \in BOOLEAN :
          thr' = [thr EXCEPT !["control"] =
                    IF ok THEN Going("store", thr["control"].id) ELSE Off]
    /\ UNCHANGED <<lock, registry>>

\* start_output_monitoring: the block that stores the Child, then the two
\* reader threads are started
SectionStore ==
    /\ Holds("control", "store")
    /\ lock' = Released("control", "store")
    /\ thr' = [thr EXCEPT !["control"] = Going("insert", thr["control"].id),
                          !["Stdout"] = Going("take", thr["control"].id),
                          !["Stderr"] = Going("take", thr["control"].id)]
    /\ UNCHANGED registry

\* the block that inserts the record, then the monitor thread is started
SectionInsert ==
    /\ Holds("control", "insert")
    /\ lock' = Released("control", "insert")
    /\ thr' = [thr EXCEPT !["control"] = Off,
                          !["monitor"] = Calling("sleep", thr["control"].id)]
    /\ UNCHANGED registry

\* the facade calls that are one critical section: stop_process, the getters
\* of one id, cleanup_finished_processes and the calls that list; and
\* stop_all_processes, which begins with the snapshot of the keys
FacadeSections == {"stop", "get", "retain", "list", "keys"}

FacadeCall(at, id) ==
    /\ thr["control"] = Off
    /\ thr' = [thr EXCEPT !["control"] = Going(at, id)]
    /\ UNCHANGED <<lock, registry>>

\* the function returns and its guard is dropped
FacadeReturn ==
    /\ \E at \in FacadeSections \ {"keys"} :
          /\ Holds("control", at)
          /\ lock' = Released("control", at)
    /\ thr' = [thr EXCEPT !["control"] = Off]
    /\ UNCHANGED registry

\* stop_all_processes goes on with stop_process for the ids in rest, if any
StopNext(rest) ==
    IF rest = {}
    THEN thr' = [thr EXCEPT !["control"] = Off]
    ELSE \E i \in rest :
            thr' = [thr EXCEPT !["control"] =
                      [at |-> "each", ph |-> "wait", id |-> i, todo |-> rest]]

\* stop_all_processes: the block that clones the keys
SectionKeys ==
    /\ Holds("control", "keys")
    /\ lock' = Released("control", "keys")
    /\ StopNext(DOMAIN procs)
    /\ UNCHANGED registry

\* stop_all_processes: one stop_process of the loop
SectionEach ==
    /\ Holds("control", "each")
    /\ lock' = Released("control", "each")
    /\ StopNext(thr["control"].todo \ {thr["control"].id})
    /\ UNCHANGED registry

\* a reader thread: the block that takes the Child out of the handle; with
\* no Child the thread ends, with one it goes to read_line
SectionTake(t) ==
    /\ Holds(t, "take")
    /\ lock' = Released(t, "take")
    /\ \E found \in BOOLEAN :
          thr' = [thr EXCEPT ![t] = IF found THEN Calling("read", thr[t].id) ELSE Off]
    /\ UNCHANGED registry

\* read_line returns: a line to push, or Ok(0) / Err and the loop breaks
ReadReturns(t) ==
    /\ thr[t].at = "read"
    /\ \E line \in BOOLEAN :
          thr' = [thr EXCEPT ![t] =
                    Going(IF line THEN "push" ELSE "restore", thr[t].id)]
    /\ UNCHANGED <<lock, registry>>

\* monitor_stream: the push and the trim, then the next read_line
SectionPush(t) ==
    /\ Holds(t, "push")
    /\ lock' = Released(t, "push")
    /\ thr' = [thr EXCEPT ![t] = Calling("read", thr[t].id)]
    /\ UNCHANGED registry

\* "Restore child", the last statement of a reader thread
SectionRestore(t) ==
    /\ Holds(t, "restore")
    /\ lock' = Released(t, "restore")
    /\ thr' = [thr EXCEPT ![t] = Off]
    /\ UNCHANGED registry

\* thread::sleep returns
SleepReturns ==
    /\ thr["monitor"].at = "sleep"
    /\ thr' = [thr EXCEPT !["monitor"] = Going("poll", thr["monitor"].id)]
    /\ UNCHANGED <<lock, registry>>

\* the locked block of the monitor loop, then the sleep or the break
SectionPoll ==
    /\ Holds("monitor", "poll")
    /\ lock' = Released("monitor", "poll")
    /\ \E should_continue \in BOOLEAN :
          thr' = [thr EXCEPT !["monitor"] =
                    IF should_continue THEN Calling("sleep", thr["monitor"].id) ELSE Off]
    /\ UNCHANGED registry

\* the steps a thread takes while it holds the Mutex
Section(t) ==
    \/ t = "control" /\ (SectionStore \/ SectionInsert \/ FacadeReturn
                           \/ SectionKeys \/ SectionEach)
    \/ t \in Streams /\ (SectionTake(t) \/ SectionPush(t) \/ SectionRestore(t))
    \/ t = "monitor" /\ SectionPoll

\* ------------------------------------------------------------------ spec
\* what the control thread does
Facade(limit) ==
    \/ \E id \in Ids : SpawnFail(id)
    \/ \E id \in Ids : SpawnBegin(id, limit)
    \/ SpawnInsert
    \/ \E id \in Ids : StopProcess(id)
    \/ StopAllBegin
    \/ StopAllStep
    \/ StopAllEnd
    \/ CleanupFinished

\* what the worker threads and the children do, reading lines apart
Workers ==
    \/ \E c \in Children, s \in Streams : ReaderStart(c, s)
    \/ \E c \in Children, s \in Streams : ReaderRestore(c, s)
    \/ \E c \in Children : ChildExit(c)
    \/ \E c \in Children : MonitorPoll(c)

Next ==
    \/ Facade(LogSpawns)
    \/ Workers
    \/ \E c \in Children, s \in Streams : ReadLine(c, s)

Spec == Init /\ [][Next]_vars

\* the life cycle with an id spawned up to three times: the readers take and
\* restore the Child as in Spec and reach end-of-stream without a line
NextReuse ==
    \/ Facade(MaxSpawns)
    \/ Workers

SpecReuse == Init /\ [][NextReuse]_vars

\* the supervisor with a caller that asks for snapshots: what happens while
\* the caller holds one is left out, the snapshot being the caller's own copy
NextQuery ==
    \/ out = NoOut /\ Next
    \/ \E id \in Ids : GetProcessInfo(id)
    \/ \E id \in Ids : GetProcessLogs(id)
    \/ \E id \in Ids, count \in Counts : GetRecentLogs(id, count)
    \/ ListProcesses
    \/ Used

SpecQuery == Init /\ [][NextQuery]_vars

\* the supervisor with a caller that starts bench commands by the wrappers
NextWrappers ==
    \/ Tick
    \/ \E w \in Wrappers : WrapperCall(w)
    \/ \E w \in Wrappers : WrapperFail(w)
    \/ SpawnInsert
    \/ StopBenchProcess
    \/ Workers

SpecWrappers == Init /\ [][NextWrappers]_vars

\* the text functions applied to a line
NextText ==
    \/ DetectLogLevel
    \/ ParseErrorLine

SpecText == InitText /\ [][NextText]_vars

\* with the fairness the OS scheduler gives the worker threads: a monitor
\* thread wakes from its sleep and polls, a created reader thread starts
FairSpec ==
    /\ Spec
    /\ \A c \in Children : WF_vars(MonitorPoll(c))
    /\ \A c \in Children, s \in Streams : WF_vars(ReaderStart(c, s))

\* a reader whose id has no record gets a line from its pipe
ReadLineAbsent(c, s) == ~Has(idOf[c]) /\ ReadLine(c, s)

\* the life cycle of SpecReuse, with the lines that readers get while the
\* record of their id is gone
NextAbsent ==
    \/ NextReuse
    \/ \E c \in Children, s \in Streams : ReadLineAbsent(c, s)

SpecAbsent == Init /\ [][NextAbsent]_vars

\* the wrappers applied to their inputs
NextArgs == \E w \in Wrappers : WrapperSpawn(w)

SpecArgs == InitArgs /\ [][NextArgs]_vars

\* the threads around the Mutex
NextLock ==
    \/ \E t \in LockThreads : LockAcquire(t)
    \/ \E id \in Ids : CallSpawn(id)
    \/ SpawnReturns
    \/ SectionStore
    \/ SectionInsert
    \/ \E at \in FacadeSections, id \in Ids : FacadeCall(at, id)
    \/ FacadeReturn
    \/ SectionKeys
    \/ SectionEach
    \/ \E t \in Streams : SectionTake(t)
    \/ \E t \in Streams : ReadReturns(t)
    \/ \E t \in Streams : SectionPush(t)
    \/ \E t \in Streams : SectionRestore(t)
    \/ SleepReturns
    \/ SectionPoll

SpecLock == InitLock /\ [][NextLock]_vars

\* a thread inside a critical section runs on to its end, and a thread that
\* waits for the Mutex gets it if the Mutex is free again and again
FairLock ==
    /\ SpecLock
    /\ \A t \in LockThreads : WF_vars(Section(t))
    /\ \A t \in LockThreads : SF_vars(LockAcquire(t))

\* ================================================================ claims
Running == {"Starting", "Running"}

\* ---- C1
\* C1: when a spawn returns Ok(id), the registry holds a record for id, its
\* status is Starting and list_processes() shows it.
C1_SpawnRegistersStarting ==
    [][(ctl.pc = "spawn" /\ ctl'.pc = "idle") =>
          /\ ctl.id \in DOMAIN procs'
          /\ procs'[ctl.id].status = "Starting"
          /\ procs'[ctl.id].pid = ctl.child
          /\ [id |-> ctl.id, status |-> "Starting"] \in list_processes']_vars

\* a spawn has just returned for an id that had a record already
C1_Witness ==
    /\ ctl.pc = "idle"
    /\ \E id \in DOMAIN procs :
          /\ procs[id].pid = 2
          /\ idOf[1] = id
          /\ procs[id].status = "Starting"
          /\ mon[2] = "polling"

\* ---- C2
\* C2: a record whose own process has exited with a success code eventually
\* has status Stopped, unless the record is removed, replaced or stopped; and
\* with a failure code, Failed.
C2_ExitEventuallyRecorded ==
    \A id \in Ids, c \in Children :
        /\ (Has(id) /\ procs[id].pid = c /\ os[c] = "exit_ok")
              ~> (~Has(id) \/ procs[id].pid # c
                    \/ procs[id].status \in {"Stopped", "Killed"})
        /\ (Has(id) /\ procs[id].pid = c /\ os[c] = "exit_fail")
              ~> (~Has(id) \/ procs[id].pid # c
                    \/ procs[id].status \in {"Failed", "Killed"})

\* ---- C3
\* C3: stop_process on a record in Starting or Running whose process has not
\* terminated returns Ok (and so kills it and sets Killed).
C3_StopLiveProcess ==
    \A id \in DOMAIN procs :
        (ctl.pc = "idle" /\ procs[id].status \in Running
            /\ os[procs[id].pid] = "alive")
        => StopResult(procs, id) = "Ok"

\* ---- C4
\* C4: an id that stop_process stopped successfully is absent from
\* list_running_processes() in every later state, until a spawn reuses it.
C4_StoppedNotRunning == \A id \in stopped : id \notin list_running_processes

\* after the stop, the monitor has written another status into the record
C4_Witness ==
    \E id \in stopped : Has(id) /\ procs[id].status \in {"Stopped", "Failed"}

\* ---- C5
\* C5: once stop_process has set Killed, the status of the record stays
\* Killed whatever the readers and the monitors do.
C5_KilledStays ==
    \A id \in stopped : Has(id) => procs[id].status = "Killed"

\* ---- C6
\* C6: when stop_all_processes returns, it returns exactly the ids that were
\* Starting or Running when it was called, and each of them is Killed.
C6_StopAllStopsRunning ==
    (ctl.pc = "stop_all" /\ ctl.todo = {}) =>
        /\ ctl.done = ctl.running
        /\ \A id \in ctl.running : Has(id) /\ procs[id].status = "Killed"

\* ---- C7
\* C7: a spawn that fails changes neither the registry nor the worker
\* threads: no record is added or changed, no reader or monitor is started.
C7_FailedSpawnNoTrace ==
    [][\A id \in Ids : SpawnFail(id) => UNCHANGED <<procs, rd, mon, idOf, os>>]_vars

\* the state a failed spawn is called in and leaves: records and a running
\* worker, the control thread between two calls
C7_Witness ==
    /\ ctl.pc = "idle"
    /\ ENABLED SpawnFail("b")
    /\ Has("a") /\ ~Has("b")
    /\ \E c \in Children : mon[c] = "polling"

\* ---- C8
\* the last n elements of a sequence
LastN(q, n) == IF Len(q) > n THEN SubSeq(q, Len(q) - n + 1, Len(q)) ELSE q

\* the lines of one stream of one child among the lines pushed to a record
StreamLines(q, d, s) ==
    SelectSeq(q, LAMBDA l : l.content[1] = d /\ l.content[2] = s)

\* C8 as claimed: once more than the cap of lines of one stream have been
\* read into a record, get_process_logs returns exactly the most recent cap
\* lines of that stream.
C8_LastLinesOfStream ==
    \A id \in DOMAIN procs, d \in Children, s \in Streams :
        Len(StreamLines(appended[id], d, s)) > log_buffer_size
        => get_process_logs(id)
             = LastN(StreamLines(appended[id], d, s), log_buffer_size)

\* C8 amended: get_process_logs returns the most recent cap lines pushed to
\* the record by whatever stream, in the order they were pushed.
C8_LastLinesPushed ==
    \A id \in DOMAIN procs :
        get_process_logs(id) = LastN(appended[id], log_buffer_size)

\* a record that overflowed and holds lines of both streams
C8_Witness ==
    \E id \in DOMAIN procs :
        /\ Len(appended[id]) > log_buffer_size
        /\ \E i, j \in 1..Len(procs[id].log_lines) :
              /\ procs[id].log_lines[i].source = "Stdout"
              /\ procs[id].log_lines[j].source = "Stderr"

\* ---- C9
\* C9: after a successful stop_process(id), a further stop_process(id)
\* returns an error, and stop_process on an unknown id returns an error.
C9_SecondStopFails ==
    /\ \A id \in stopped : ctl.pc = "idle" => StopResult(procs, id) # "Ok"
    /\ \A id \in Ids \ DOMAIN procs : StopResult(procs, id) # "Ok"

\* ---- C10
\* C10 as claimed: a record leaves the registry only by a cleanup that finds
\* it terminal, and a record in Starting or Running stays the record of its
\* id through every step.
C10_RecordsOnlyLeaveByCleanup ==
    [][\A id \in DOMAIN procs :
          /\ id \notin DOMAIN procs' => procs[id].status \in Terminal
          /\ procs[id].status \in Running =>
                (id \in DOMAIN procs' /\ procs'[id].pid = procs[id].pid)]_vars

\* C10 amended: an id leaves the registry only in a step that removes exactly
\* the terminal records and leaves the others untouched (the cleanup); the
\* only other way a record ends is a spawn with its id, which replaces it,
\* whatever its status, by a new Starting record.
C10_KeysOnlyLeaveByCleanup ==
    [][\A id \in DOMAIN procs :
          /\ id \notin DOMAIN procs' =>
                /\ ctl.pc = "idle" /\ ctl'.pc = "idle"
                /\ \A j \in DOMAIN procs :
                      IF procs[j].status \in Terminal
                      THEN j \notin DOMAIN procs'
                      ELSE j \in DOMAIN procs' /\ procs'[j] = procs[j]
          /\ (id \in DOMAIN procs' /\ procs'[id].pid # procs[id].pid) =>
                /\ ctl.pc = "spawn" /\ ctl.id = id
                /\ procs'[id] = NewHandle(ctl.child)]_vars

\* a cleanup has removed the terminal record of b and kept the record of a
C10_Witness ==
    /\ ctl.pc = "idle"
    /\ nspawn = 3
    /\ DOMAIN procs = {"a"}
    /\ procs["a"].pid = 1
    /\ procs["a"].status = "Starting"

\* ---- C11
\* word occurs in line, the letters compared without regard to case
HasWord(line, word) ==
    \E i \in 1..Len(line) :
        /\ i + Len(word) - 1 <= Len(line)
        /\ \A j \in 1..Len(word) : Lower(line[i + j - 1]) = word[j]

\* C11: the level detect_log_level gives a line is Error if the line contains
\* "error" or "exception" in any case, else Warning if it contains "warn",
\* else Debug if "debug", else Trace if "trace", else Info.
C11_LevelByPrecedence ==
    out.op = "detect_log_level" =>
        out.level =
            IF HasWord(inp, kw_error) \/ HasWord(inp, kw_exception) THEN "Error"
            ELSE IF HasWord(inp, kw_warn) THEN "Warning"
            ELSE IF HasWord(inp, kw_debug) THEN "Debug"
            ELSE IF HasWord(inp, kw_trace) THEN "Trace"
            ELSE "Info"

\* a line with two keywords, one of them in capitals, has been classified by
\* the keyword that comes first in the precedence
C11_Witness ==
    /\ out.op = "detect_log_level"
    /\ out.level = "Warning"
    /\ contains(inp, <<"W", "A", "R", "N">>)
    /\ HasWord(inp, kw_trace)

\* ---- C12
\* the place where the digits that end seq begin (Len(seq) + 1: none)
TrailingDigits(seq) ==
    CHOOSE b \in 1..(Len(seq) + 1) :
        /\ \A j \in b..Len(seq) : IsDigit(seq[j])
        /\ b = 1 \/ ~IsDigit(seq[b - 1])

\* seq reads <path>:<line>:<col>
Frame(seq) ==
    LET c == TrailingDigits(seq)
        front == SubSeq(seq, 1, c - 2)
        l == TrailingDigits(front)
    IN IF /\ c <= Len(seq) /\ c >= 3 /\ seq[c - 1] = ":"
          /\ l <= Len(front) /\ l >= 3 /\ front[l - 1] = ":"
       THEN [found |-> TRUE, path |-> SubSeq(front, 1, l - 2),
             num |-> SubSeq(front, l, Len(front))]
       ELSE NoMatch

\* at <symbol> (<path>:<line>:<col>) stands at place i of line
FrameAt(line, i) ==
    IF ~StartsAt(line, i, js_head) THEN NoMatch
    ELSE LET s == i + Len(js_head)
             q == UntilEnd(line, s, "(") + 1
             c == UntilEnd(line, q + 1, ")") + 1
         IN IF /\ q <= Len(line) /\ q - 2 >= s /\ line[q - 1] = " "
               /\ c <= Len(line)
            THEN Frame(SubSeq(line, q + 1, c - 1))
            ELSE NoMatch

\* the first File "<path>", line <N> of a line
FileMarker(line) ==
    LET places == {i \in 1..Len(line) : FileAt(line, i).found} IN
    IF places = {} THEN NoMatch ELSE FileAt(line, Least(places))

\* the first at <symbol> (<path>:<line>:<col>) of a line
FrameMarker(line) ==
    LET places == {i \in 1..Len(line) : FrameAt(line, i).found} IN
    IF places = {} THEN NoMatch ELSE FrameAt(line, Least(places))

\* the location the two patterns, tried in order, promise for a line
Promised(line) ==
    IF FileMarker(line).found
    THEN [some |-> TRUE, file_path |-> FileMarker(line).path,
          line_number |-> Canonical(FileMarker(line).num),
          message |-> line, error_type |-> "PythonTraceback"]
    ELSE IF FrameMarker(line).found
    THEN [some |-> TRUE, file_path |-> FrameMarker(line).path,
          line_number |-> Canonical(FrameMarker(line).num),
          message |-> line, error_type |-> "JavaScriptError"]
    ELSE None

\* C12: a line that contains File "<path>", line <N> yields <path>, N and
\* PythonTraceback; otherwise a line that contains
\* at <symbol> (<path>:<line>:<col>) yields that path and line and
\* JavaScriptError; a line that contains neither yields no location.
C12_LocationExtracted ==
    out.op = "parse_error_line" => out.error = Promised(inp)

\* ---- C13
\* the log buffer of the record of an id; nothing for an unknown id
Buffer(id) == IF id \in DOMAIN procs THEN procs[id].log_lines ELSE <<>>

\* C13: get_recent_logs(id, n) returns min(n, len) entries, and they are the
\* last entries of the log buffer of the record in buffer order: all of the
\* buffer when n is larger, nothing when n is 0 or the id is unknown.
C13_RecentLogsAreTail ==
    out.op = "get_recent_logs" =>
        LET buf == Buffer(out.id)
            k == IF out.count < Len(buf) THEN out.count ELSE Len(buf)
        IN /\ Len(out.val) = k
           /\ \A i \in 1..k : out.val[i] = buf[Len(buf) - k + i]
           /\ out.count >= Len(buf) => out.val = buf
           /\ out.count = 0 => out.val = <<>>
           /\ out.id \notin DOMAIN procs => out.val = <<>>

\* one line was asked of a buffer that holds two different ones
C13_Witness ==
    /\ out.op = "get_recent_logs"
    /\ out.count = 1
    /\ Len(Buffer(out.id)) = 2
    /\ Buffer(out.id)[1] # Buffer(out.id)[2]
    /\ out.val = <<Buffer(out.id)[2]>>

\* ---- C14
\* what the query the caller made returns when it is made now
Again(o) ==
    IF o.op = "get_process_logs" THEN get_process_logs(o.id)
    ELSE IF o.op = "get_process_info" THEN get_process_info(o.id)
    ELSE list_processes

Repeatable ==
    out.op \in {"get_process_logs", "get_process_info", "list_processes"}
        => Again(out) = out.val

\* C14: a call of get_process_logs, list_processes or get_process_info
\* leaves the registry, the threads and the children as they were, and the
\* same call made again right after it returns an equal snapshot.
C14_QueriesReadOnly ==
    [][(out = NoOut /\ out' # NoOut) =>
          /\ UNCHANGED <<procs, os, rd, mon, ctl, taken, nread>>
          /\ Repeatable']_vars

\* the caller holds the log lines of a record that has some
C14_Witness ==
    /\ out.op = "get_process_logs"
    /\ out.val # <<>>
    /\ \E c \in Children : mon[c] = "polling"

\* ---- C15
\* C15: the id a wrapper call makes is the id of no earlier wrapper call, so
\* the record the call inserts replaces no record of the registry.
C15_WrapperIdsFresh ==
    [][(ctl.pc = "spawn" /\ ctl'.pc = "idle") => ctl.id \notin DOMAIN procs]_vars

\* ---- C16
\* C16: when a bench process started by frappe-bench-start is still running,
\* frappe-bench-stop returns success: stop_process on the id that
\* get_bench_process_id gives returns Ok (and so kills the process and sets
\* Killed, which takes the record out of is_bench_running).
C16_BenchStopStops ==
    ctl.pc = "idle" =>
        \A id \in get_bench_process_id :
            os[procs[id].pid] = "alive" => StopResult(procs, id) = "Ok"

\* ---- C17
\* the transitions of the lifecycle state machine
Lifecycle(s, t) ==
    \/ s = t
    \/ s = "Starting" /\ t = "Running"
    \/ s \in {"Starting", "Running"} /\ t \in {"Stopped", "Failed"}
    \/ t = "Killed"

\* C17: every change of the status of a record (the record of one spawn: the
\* replacement of a record by a new spawn of its id is left aside) is a
\* transition of the lifecycle state machine: Starting to Running, Starting
\* or Running to Stopped or Failed, any status to Killed.
C17_StatusFollowsLifecycle ==
    [][\A id \in (DOMAIN procs) \cap (DOMAIN procs') :
          procs'[id].pid = procs[id].pid
              => Lifecycle(procs[id].status, procs'[id].status)]_vars

\* ---- C18
\* C18: the lines a spawned process writes are eventually appended to its
\* record.  For that the pipes of a live process that has a record must stay
\* open and within reach of a reader once the spawn has returned: the Child
\* value that owns them is in a handle or held by a reader thread, or (a
\* reader took the stream out of it before) the stream was read to its end.
C18_OutputReachesRecord ==
    \A id \in DOMAIN procs, s \in Streams :
        LET c == procs[id].pid IN
        (ctl.child # c /\ os[c] = "alive")
            => (Owned(procs, rd, c) \/ taken[c][s])

\* ---- C19
\* C19: when a spawn hands the child to the stream readers (it creates the
\* two reader threads), the record of the spawn is in the registry already.
C19_RecordBeforeHandOff ==
    [][\A c \in Children :
          (rd[c]["Stdout"].pc = "none" /\ rd'[c]["Stdout"].pc = "start")
              => /\ idOf'[c] \in DOMAIN procs
                 /\ procs[idOf'[c]].pid = c
                 /\ procs[idOf'[c]].status = "Starting"]_vars

\* ---- C20
\* C20: a poll of the monitor of a spawn whose process is alive and whose
\* record is Starting or Running leaves the record Running and the monitor
\* polling (or, when the poll itself fails, the record Failed).
C20_AlivePromoted ==
    [][\A c \in Children :
          (/\ MonitorPoll(c)
           /\ Has(idOf[c])
           /\ procs[idOf[c]].pid = c
           /\ procs[idOf[c]].status \in {"Starting", "Running"}
           /\ os[c] = "alive")
          => \/ procs'[idOf[c]].status = "Running" /\ mon'[c] = "polling"
             \/ procs'[idOf[c]].status = "Failed"]_vars

\* ---- C21
\* C21: the monitor of a spawn ends only in a poll that finds no record for
\* its id or that leaves the record with a terminal status (the exit or a
\* poll error was seen, or the record was stopped): it does not end while the
\* record is there in Starting or Running.
C21_MonitorStopsOnlyWhenDecided ==
    [][\A c \in Children :
          (mon[c] = "polling" /\ mon'[c] = "none")
              => \/ idOf[c] \notin DOMAIN procs
                 \/ procs'[idOf[c]].status \in Terminal]_vars

\* ---- C22
\* C22: in every state each of the three buffers of every record holds at
\* most log_buffer_size entries: the append and the trim are one step.
C22_BuffersCapped ==
    \A id \in DOMAIN procs :
        /\ Len(procs[id].log_lines) <= log_buffer_size
        /\ Len(procs[id].output_lines) <= log_buffer_size
        /\ Len(procs[id].error_lines) <= log_buffer_size

\* a record is full after more lines than the cap were appended to it, by the
\* readers of both streams, and a reader is still in its read loop
C22_Witness ==
    \E id \in DOMAIN procs :
        /\ Len(procs[id].log_lines) = log_buffer_size
        /\ Len(appended[id]) > log_buffer_size
        /\ \A s \in Streams :
              \E i \in DOMAIN appended[id] : appended[id][i].source = s
        /\ \E c \in Children, s \in Streams :
              idOf[c] = id /\ rd[c][s].pc = "reading"

\* ---- C23
\* the line numbers, in buffer order, of the lines of stream s of process d
\* in a buffer of line contents
NumbersOf(buf, d, s) ==
    LET mine == SelectSeq(buf, LAMBDA e : e[1] = d /\ e[2] = s)
    IN [i \in DOMAIN mine |-> mine[i][3]]

\* each entry is the line read just after the entry before it
InReadOrder(ks) == \A i \in 1..(Len(ks) - 1) : ks[i + 1] = ks[i] + 1

Contents(lines) == [i \in DOMAIN lines |-> lines[i].content]

\* C23: in every buffer of every record the retained lines of one stream of
\* one process are consecutive lines of that stream in the order they were
\* read: nothing is reordered, repeated or missing in between.
C23_StreamOrderKept ==
    \A id \in DOMAIN procs : \A d \in Children : \A s \in Streams :
        /\ InReadOrder(NumbersOf(Contents(procs[id].log_lines), d, s))
        /\ InReadOrder(NumbersOf(procs[id].output_lines, d, s))
        /\ InReadOrder(NumbersOf(procs[id].error_lines, d, s))

\* a record keeps the second and third stdout line of a process after the
\* first was trimmed, and log_lines holds lines of both streams
C23_Witness ==
    \E id \in DOMAIN procs : \E d \in Children :
        /\ NumbersOf(procs[id].output_lines, d, "Stdout") = <<2, 3>>
        /\ \A s \in Streams :
              \E i \in DOMAIN procs[id].log_lines : procs[id].log_lines[i].source = s

\* ---- C24
\* the other stream of a process
Sibling(s) == CHOOSE t \in Streams : t # s

\* C24: a step of a reader thread changes no status, no monitor and no record
\* other than the one of its id; and when a reader's loop ends, the other
\* stream of the process it read is still captured: its sibling reader has
\* read it or is about to take the Child that is restored.
C24_ReaderErrorIsLocal ==
    [][\A c \in Children : \A s \in Streams :
          (ReaderStart(c, s) \/ ReadLine(c, s) \/ ReaderRestore(c, s))
              => /\ DOMAIN procs' = DOMAIN procs
                 /\ \A id \in DOMAIN procs :
                       /\ procs'[id].status = procs[id].status
                       /\ id # idOf[c] => procs'[id] = procs[id]
                 /\ mon' = mon
                 /\ \A x \in Children : \A t \in Streams :
                       <<x, t>> # <<c, s>> => rd'[x][t] = rd[x][t]
                 /\ (rd[c][s].pc = "reading" /\ rd'[c][s].pc = "none")
                       => \/ taken[rd[c][s].held][Sibling(s)]
                          \/ rd[c][Sibling(s)].pc = "start"]_vars

\* ---- C25
\* a poll of the monitor of c in which try_wait failed on a live process: the
\* Child leaves the handle although its process has not ended
PollFailed(c) ==
    /\ MonitorPoll(c)
    /\ Has(idOf[c])
    /\ procs[idOf[c]].child # NoChild
    /\ os[procs[idOf[c]].child] = "alive"
    /\ procs'[idOf[c]].child = NoChild

\* C25: a poll whose try_wait fails sets the status of the polled record to
\* Failed and ends that monitor; the buffers of the record, every other
\* record, every other monitor and every reader stay as they were.
C25_PollErrorFailsOnlyThatRecord ==
    [][\A c \in Children :
          PollFailed(c)
              => /\ procs'[idOf[c]].status = "Failed"
                 /\ mon'[c] = "none"
                 /\ procs'[idOf[c]].log_lines = procs[idOf[c]].log_lines
                 /\ DOMAIN procs' = DOMAIN procs
                 /\ \A id \in DOMAIN procs : id # idOf[c] => procs'[id] = procs[id]
                 /\ \A x \in Children : x # c => mon'[x] = mon[x]
                 /\ rd' = rd]_vars

\* a record is Failed with its monitor ended and its process alive, next to
\* a record of another id that is still Starting
C25_Witness ==
    \E i, j \in DOMAIN procs :
        /\ i # j
        /\ procs[i].status = "Failed"
        /\ procs[i].child = NoChild
        /\ os[procs[i].pid] = "alive"
        /\ \A c \in Children : idOf[c] = i => mon[c] = "none"
        /\ procs[j].status = "Starting"

\* ---- C26
\* no thread is inside a call that can block while it holds the Mutex
NoLockOverCall == \A t \in LockThreads : thr[t].ph = "call" => lock # t

\* C26 as stated: no thread holds the Mutex across a blocking call, and every
\* critical section touches at most one record.
C26_ShortSingleRecordSections ==
    /\ NoLockOverCall
    /\ \A t \in LockThreads :
          lock = t => Cardinality(Touches(thr[t].at, thr[t].id)) <= 1

\* the critical sections that go over the whole map
WholeMapSections == {"keys", "retain", "list"}

\* C26 amended: no thread holds the Mutex across a blocking call; the
\* critical sections of the workers, of a spawn, of stop_process and of the
\* getters touch one record, while the snapshot of stop_all_processes,
\* cleanup_finished_processes and the listing calls go over all records.
C26_ShortSections ==
    /\ NoLockOverCall
    /\ \A t \in LockThreads :
          lock = t =>
             IF thr[t].at \in WholeMapSections
             THEN t = "control" /\ Touches(thr[t].at, thr[t].id) = DOMAIN procs
             ELSE Touches(thr[t].at, thr[t].id) = {thr[t].id}

\* a reader sits in read_line and the monitor sleeps while the control thread
\* is inside the retain of cleanup_finished_processes
C26_Witness ==
    /\ thr["Stdout"].at = "read"
    /\ thr["monitor"].at = "sleep"
    /\ Holds("control", "retain")
    /\ Cardinality(DOMAIN procs) > 1

\* ---- C27
\* C27: the Child in the handle of a record, and every line in its three
\* buffers, is that of the process whose spawn created the record (its pid).
C27_RecordHoldsOwnProcess ==
    \A id \in DOMAIN procs :
        LET h == procs[id] IN
        /\ h.child \in {NoChild, h.pid}
        /\ \A i \in DOMAIN h.log_lines : h.log_lines[i].content[1] = h.pid
        /\ \A i \in DOMAIN h.output_lines : h.output_lines[i][1] = h.pid
        /\ \A i \in DOMAIN h.error_lines : h.error_lines[i][1] = h.pid

\* ---- C28
\* C28: no thread asks for the Mutex while it holds it, every thread that
\* asks for the Mutex gets it, and every thread that holds it lets it go.
C28_NoDeadlock ==
    /\ [](\A t \in LockThreads : thr[t].ph = "wait" => lock # t)
    /\ \A t \in LockThreads : (thr[t].ph = "wait") ~> (thr[t].ph = "in")
    /\ \A t \in LockThreads : (lock = t) ~> (lock # t)

\* stop_all_processes has taken its snapshot and waits for the Mutex for a
\* stop_process, while a reader holds the Mutex for a push and the other
\* reader and the monitor wait for it as well
C28_Witness ==
    /\ thr["control"].at = "each"
    /\ thr["control"].ph = "wait"
    /\ thr["control"].todo = Ids
    /\ Holds("Stdout", "push")
    /\ thr["Stderr"].ph = "wait"
    /\ thr["monitor"].ph = "wait"

\* ---- C29
\* C29: the registry starts empty; a key comes into it only at the insert of
\* a spawn of that id; a reader or a monitor whose id has no record leaves
\* the registry as it is: the reader drops the line and reads on, or ends,
\* and the monitor ends.
C29_KeysOnlyBySpawn ==
    /\ procs = <<>>
    /\ [][/\ \A id \in Ids :
               (id \notin DOMAIN procs /\ id \in DOMAIN procs')
                   => (ctl.pc = "spawn" /\ ctl.id = id /\ ctl'.pc = "idle")
          /\ \A c \in Children : \A s \in Streams :
               (~Has(idOf[c]) /\ (ReaderStart(c, s) \/ ReadLine(c, s)
                                    \/ ReaderRestore(c, s)))
                   => /\ procs' = procs
                      /\ rd'[c][s].pc = (IF rd[c][s].pc = "reading" /\ ReadLine(c, s)
                                         THEN "reading" ELSE "none")
          /\ \A c \in Children :
               (~Has(idOf[c]) /\ MonitorPoll(c))
                   => (procs' = procs /\ mon'[c] = "none")]_vars

\* a reader is in its read loop and has read a line after the record of its
\* id was removed: the registry has no record of the id
C29_Witness ==
    \E c \in Children, s \in Streams :
        /\ rd[c][s].pc = "reading"
        /\ ~Has(idOf[c])
        /\ nread[rd[c][s].held][s] > 0

\* ---- C30
\* how often x is in the sequence a
Count(x, a) == Cardinality({i \in DOMAIN a : a[i] = x})

\* C30: the spawn run_bench_migrate asks for runs the program bench with
\* "migrate" exactly once in its arguments, alone when there is no site and
\* with "--site", <name> before or after it when there is one.
C30_MigrateOnce ==
    (out # NoOut /\ out.op = "bench_migrate") =>
        /\ out.spawn.program = "bench"
        /\ Count("migrate", out.spawn.args) = 1
        /\ out.spawn.args \in
              (IF inp.site.some
               THEN {<<"migrate", "--site", inp.site.value>>,
                     <<"--site", inp.site.value, "migrate">>}
               ELSE {<<"migrate">>})

====
